---------------------------- MODULE Spec2Model ----------------------------
(***************************************************************************)
(* A model of futhark-bindgen's src/lib.rs: the Backend enumeration, the   *)
(* Compiler builder and its compile(), Library::link(), and the two build  *)
(* script entry points build() and build_in_out_dir().                     *)
(*                                                                         *)
(* Representation of values.                                               *)
(*   - A string is the sequence of its pieces: "-o" is <<"-o">>, and       *)
(*     format!("futhark_generate_{project}") is                            *)
(*     <<"futhark_generate_", project>>.                                   *)
(*   - A file name is the sequence of its dot-separated segments:          *)
(*     a.b.fut is <<"a", "b", "fut">> and .fut is <<"", "fut">>.           *)
(*   - A path is [abs, comps]: whether it starts at the root, and its      *)
(*     components (file names).  All names are valid Unicode, on which     *)
(*     to_string_lossy loses nothing.                                      *)
(* Everything outside the process (whether the source exists, how the      *)
(* subprocess ends, what the manifest file holds, the environment          *)
(* variables, the outcome of the code generator and of the C compiler) is  *)
(* an input drawn by the action that consults it.                          *)
(***************************************************************************)
EXTENDS Naturals, Sequences, FiniteSets

\* Longest extra-argument list handed to with_extra_args.
MaxArgs == 1
\* Most builder calls (with_*) made on one Compiler.
MaxCalls == 2

--------------------------------------------------------------------------
(* Backend *)

Backend == {"C", "CUDA", "OpenCL", "Multicore", "Python", "PyOpenCL"}

to_str(b) ==
    CASE b = "C" -> "c"
      [] b = "CUDA" -> "cuda"
      [] b = "OpenCL" -> "opencl"
      [] b = "Multicore" -> "multicore"
      [] b = "Python" -> "python"
      [] b = "PyOpenCL" -> "pyopencl"

\* A plausible slip: OpenCL's list without the math library.
required_c_libs_opencl_without_m(b) ==
    CASE b = "CUDA" -> <<"cuda", "cudart", "nvrtc", "m">>
      [] b = "OpenCL" -> <<"OpenCL">>
      [] OTHER -> <<>>

required_c_libs(b) ==
    CASE b = "CUDA" -> <<"cuda", "cudart", "nvrtc", "m">>
      [] b = "OpenCL" -> <<"OpenCL", "m">>
      [] OTHER -> <<>>

--------------------------------------------------------------------------
(* std::path, as far as lib.rs uses it *)

Str(s) == <<s>>

Path(abs, comps) == [abs |-> abs, comps |-> comps]

\* PathBuf::new(): the empty path; also stands for "no path yet".
NoPath == Path(FALSE, <<>>)

RECURSIVE Intersperse(_, _)
Intersperse(seqs, sep) ==
    IF seqs = <<>> THEN <<>>
    ELSE IF Len(seqs) = 1 THEN seqs[1]
    ELSE seqs[1] \o <<sep>> \o Intersperse(Tail(seqs), sep)

\* A file name as text: its segments with a dot between them.
name_str(n) == Intersperse([i \in 1..Len(n) |-> <<n[i]>>], ".")

\* A path as text: an absolute path starts with the separator.
display(p) ==
    (IF p.abs THEN <<"/">> ELSE <<>>)
        \o Intersperse([i \in 1..Len(p.comps) |-> name_str(p.comps[i])], "/")

\* Path::to_string_lossy; every name of the model is valid Unicode.
to_string_lossy(p) == display(p)

\* The path as an OsStr argument (Command::arg(&self.src)).
as_os_str(p) == display(p)

\* Path::join: an absolute `q` replaces `p`, a relative one is appended.
join(p, q) ==
    IF q.abs THEN q ELSE Path(p.abs, p.comps \o q.comps)

\* The name has an extension: a dot that is not its first character.
has_extension(n) == Len(n) > 1 /\ ~(Len(n) = 2 /\ n[1] = "")

\* Path::file_stem of a file name.
stem_of(n) == IF has_extension(n) THEN SubSeq(n, 1, Len(n) - 1) ELSE n

\* Path::file_name(): the last component (the model has no `..`).
file_name(p) == p.comps[Len(p.comps)]

\* Path::with_extension: the last component cut back to its stem, then
\* `.ext` when ext is not empty.
with_extension(p, ext) ==
    LET n == Len(p.comps)
        stem == stem_of(p.comps[n])
        name == IF ext = "" THEN stem ELSE stem \o <<ext>>
    IN  Path(p.abs, SubSeq(p.comps, 1, n - 1) \o <<name>>)

\* Path::parent(): the path without its last component.
parent(p) == Path(p.abs, SubSeq(p.comps, 1, Len(p.comps) - 1))

\* The working directory of the process.
Cwd == Path(TRUE, <<<<"w">>>>)

\* fs::canonicalize of an existing path (no symlinks, no `..` in the model).
canonicalize(p) == join(Cwd, p)

--------------------------------------------------------------------------
(* Compiler *)

NoCompiler ==
    [exe |-> <<>>, backend |-> "none", src |-> NoPath,
     extra_args |-> <<>>, output_dir |-> NoPath]

new(backend, src) ==
    [exe |-> Str("futhark"), backend |-> backend, src |-> src,
     extra_args |-> <<>>, output_dir |-> parent(canonicalize(src))]

with_executable_name(c, name) == [c EXCEPT !.exe = name]

\* A slip: extending the list instead of replacing it.
with_extra_args_appends(c, args) ==
    [c EXCEPT !.extra_args = c.extra_args \o args]

with_extra_args(c, args) == [c EXCEPT !.extra_args = args]

with_output_dir(c, dir) == [c EXCEPT !.output_dir = dir]

--------------------------------------------------------------------------
(* Manifest, Library, Result<Option<Library>, Error> *)

NoManifest == [backend |-> "none"]

NoLibrary ==
    [manifest |-> NoManifest, c_file |-> NoPath, h_file |-> NoPath,
     src |-> NoPath]

NoResult == [tag |-> "NoResult", err |-> "", lib |-> NoLibrary]
Err(e) == [tag |-> "Err", err |-> e, lib |-> NoLibrary]
OkNone == [tag |-> "OkNone", err |-> "", lib |-> NoLibrary]
OkSome(l) == [tag |-> "OkSome", err |-> "", lib |-> l]

\* What the file system holds at the manifest's path.
Files ==
    {[state |-> "missing", backend |-> "none"],
     [state |-> "malformed", backend |-> "none"]}
        \cup {[state |-> "valid", backend |-> b] : b \in Backend}

\* Manifest::parse_file: the file's Manifest, or the error of reading or
\* parsing it.
parse_file(file) ==
    CASE file.state = "missing" -> [ok |-> FALSE, err |-> "Io", manifest |-> NoManifest]
      [] file.state = "malformed" ->
            [ok |-> FALSE, err |-> "ManifestParse", manifest |-> NoManifest]
      [] OTHER -> [ok |-> TRUE, err |-> "", manifest |-> [backend |-> file.backend]]

--------------------------------------------------------------------------
(* Compiler::compile *)

\* How Command::status() can end.
Statuses == {"launch_failed", "nonzero", "zero"}

\* The stem handed to the subprocess after -o.
compile_output(c) ==
    join(c.output_dir, Path(FALSE, <<file_name(with_extension(c.src, ""))>>))

\* A slip: the extra arguments pushed after the fixed ones.
compile_args_extra_last(c, output) ==
    <<Str(to_str(c.backend))>>
        \o <<Str("-o"), to_string_lossy(output)>>
        \o <<Str("--lib")>>
        \o <<as_os_str(c.src)>>
        \o c.extra_args

\* The argument vector of the spawned command.
compile_args(c, output) ==
    <<Str(to_str(c.backend))>>
        \o c.extra_args
        \o <<Str("-o"), to_string_lossy(output)>>
        \o <<Str("--lib")>>
        \o <<as_os_str(c.src)>>

\* A slip: the exit status is not looked at.
success_unchecked(status) == TRUE

\* ExitStatus::success() of a command that was launched.
success(status) == status = "zero"

\* A slip: only Python is taken to produce no C library.
no_library_python_only(backend) == backend = "Python"

\* The backends whose output is a script, not a C library.
no_library(backend) == backend \in {"Python", "PyOpenCL"}

\* A slip: a manifest that cannot be read counts as "no library".
library_or_error_swallowed(c, output, parsed) ==
    IF ~parsed.ok THEN OkNone
    ELSE OkSome([manifest |-> parsed.manifest,
                 c_file |-> with_extension(output, "c"),
                 h_file |-> with_extension(output, "h"),
                 src |-> c.src])

\* The end of compile(): the manifest's error, or the Library.
library_or_error(c, output, parsed) ==
    IF ~parsed.ok THEN Err(parsed.err)
    ELSE OkSome([manifest |-> parsed.manifest,
                 c_file |-> with_extension(output, "c"),
                 h_file |-> with_extension(output, "h"),
                 src |-> c.src])

\* compile() on Compiler c, when the subprocess ends with `status` and the
\* manifest's path holds `file`: the result, the command that was spawned,
\* and the manifest paths that were read.
compile(c, status, file) ==
    LET output == compile_output(c)
        cmd == [exe |-> c.exe, args |-> compile_args(c, output)]
    IN  IF status = "launch_failed"
        THEN [ret |-> Err("Io"), cmd |-> cmd, reads |-> <<>>]
        ELSE IF ~success(status)
        THEN [ret |-> Err("CompilationFailed"), cmd |-> cmd, reads |-> <<>>]
        ELSE IF no_library(c.backend)
        THEN [ret |-> OkNone, cmd |-> cmd, reads |-> <<>>]
        ELSE [ret |-> library_or_error(c, output, parse_file(file)),
              cmd |-> cmd,
              reads |-> <<with_extension(output, "json")>>]

--------------------------------------------------------------------------
(* Library::link *)

\* format!("futhark_generate_{project}")
archive_name(project) == <<"futhark_generate_", project>>

LinkLib(name) == [key |-> "rustc-link-lib", value |-> name]

\* link() on library l in package `project`, when the C compiler ends
\* well (cc_ok) or not: cc::Build::compile panics on a failed compilation,
\* before anything is printed.
link(l, project, cc_ok) ==
    LET name == archive_name(project)
        libs == required_c_libs(l.manifest.backend)
    IN  IF ~cc_ok
        THEN [panicked |-> TRUE, archive |-> <<>>, directives |-> <<>>]
        ELSE [panicked |-> FALSE,
              archive |-> name,
              directives |->
                  <<LinkLib(name)>>
                      \o [i \in 1..Len(libs) |-> LinkLib(Str(libs[i]))]]

--------------------------------------------------------------------------
(* generate::Config and the generator, as lib.rs calls them *)

\* Path::extension of the last component, "" when it has none.
extension(p) ==
    LET n == p.comps[Len(p.comps)]
    IN  IF has_extension(n) THEN n[Len(n)] ELSE ""

\* Config::new(dest): the extension selects the host target.
config_new(out, io_ok) ==
    IF extension(out) \notin {"rs", "ml"} THEN [ok |-> FALSE, err |-> "InvalidOutputLanguage"]
    ELSE IF ~io_ok THEN [ok |-> FALSE, err |-> "Io"]
    ELSE [ok |-> TRUE, err |-> ""]

--------------------------------------------------------------------------
(* build, build_in_out_dir *)

NoFrame ==
    [fn |-> "none", backend |-> "none", src |-> NoPath,
     dest_arg |-> NoPath, dest |-> NoPath]

\* build_in_out_dir's `dest`, as it hands it to build.
build_in_out_dir_dest(out_dir, dest) == join(out_dir, dest)

\* build's `out`, as it hands it to Config::new.
build_dest(out_dir, dest) == join(out_dir, dest)

\* A slip: the result of compile() is not unwrapped before going on.
after_compile_unchecked(r) == "config"

\* .expect("Compilation failed").expect("Unable to find manifest file")
after_compile(r) == IF r.tag = "OkSome" THEN "config" ELSE "panic"

compile_panic(r) ==
    IF r.tag = "Err" THEN "Compilation failed"
    ELSE IF r.tag = "OkNone" THEN "Unable to find manifest file"
    ELSE ""

\* .expect(..) on a later stage's result.
expect(ok, next) == IF ok THEN next ELSE "panic"

--------------------------------------------------------------------------
(* Inputs *)

Srcs ==
    {Path(FALSE, <<<<"a", "fut">>>>),
     Path(FALSE, <<<<"s">>, <<"a", "b", "fut">>>>),
     Path(TRUE, <<<<"p">>, <<"", "fut">>>>)}

Dirs == {Path(TRUE, <<<<"out">>>>), Path(FALSE, <<<<"o", "d">>>>)}

\* Values of the OUT_DIR environment variable.
OutDirs ==
    {Path(TRUE, <<<<"target">>, <<"out">>>>), Path(FALSE, <<<<"out">>>>)}

Dests ==
    {Path(FALSE, <<<<"b", "rs">>>>),
     Path(FALSE, <<<<"gen">>, <<"b", "ml">>>>),
     Path(FALSE, <<<<"b", "txt">>>>),
     Path(TRUE, <<<<"abs">>, <<"b", "rs">>>>)}

Names == {Str("futhark"), Str("futhark-nightly")}

Flags == {Str("-w"), Str("--safe")}

ArgLists == UNION {[1..n -> Flags] : n \in 0..MaxArgs}

\* Values of the CARGO_PKG_NAME environment variable.
Projects == {"proj", "other"}

--------------------------------------------------------------------------
(* State *)

VARIABLES
    self,           \* the Compiler being configured, or NoCompiler
    ctor,           \* the arguments Compiler::new was called with
    calls,          \* the with_* calls made on it, in order
    status,         \* how the subprocess ended, "none" before compile()
    cmd,            \* the command compile() spawned
    manifest_state, \* what the manifest's path held when compile() ran
    reads,          \* the manifest paths compile() read
    ret,            \* what compile() returned
    pc,             \* where the caller (or build) stands
    msg,            \* the panic message, "" when nothing panicked
    frame,          \* build's arguments
    OUT_DIR,        \* the environment variable build reads
    config,         \* the path build handed to Config::new
    stages,         \* the stages build has run, with their outcome
    archive,        \* the archive cc compiled
    directives      \* the cargo directives link() printed

vars ==
    <<self, ctor, calls, status, cmd, manifest_state, reads, ret, pc, msg,
      frame, OUT_DIR, config, stages, archive, directives>>

NoCmd == [exe |-> <<>>, args |-> <<>>]
NoCtor == [backend |-> "none", src |-> NoPath]
Call(op, exe, args, dir) == [op |-> op, exe |-> exe, args |-> args, dir |-> dir]
Stage(name, ok) == [name |-> name, ok |-> ok]

Init ==
    /\ self = NoCompiler
    /\ ctor = NoCtor
    /\ calls = <<>>
    /\ status = "none"
    /\ cmd = NoCmd
    /\ manifest_state = "none"
    /\ reads = <<>>
    /\ ret = NoResult
    /\ pc = "idle"
    /\ msg = ""
    /\ frame = NoFrame
    /\ OUT_DIR = NoPath
    /\ config = NoPath
    /\ stages = <<>>
    /\ archive = <<>>
    /\ directives = <<>>

--------------------------------------------------------------------------
(* The Compiler, used directly *)

\* Compiler::new(backend, src); canonicalize().unwrap() panics when the
\* source does not exist.
New(backend, src, exists) ==
    /\ pc = "idle"
    /\ IF exists
       THEN /\ self' = new(backend, src)
            /\ ctor' = [backend |-> backend, src |-> src]
            /\ pc' = "builder"
            /\ msg' = msg
       ELSE /\ pc' = "panic"
            /\ msg' = "canonicalize"
            /\ UNCHANGED <<self, ctor>>
    /\ UNCHANGED <<calls, status, cmd, manifest_state, reads, ret, frame,
                   OUT_DIR, config, stages, archive, directives>>

WithExecutableName(name) ==
    /\ pc = "builder"
    /\ Len(calls) < MaxCalls
    /\ self' = with_executable_name(self, name)
    /\ calls' = Append(calls, Call("exe", name, <<>>, NoPath))
    /\ UNCHANGED <<ctor, status, cmd, manifest_state, reads, ret, pc, msg,
                   frame, OUT_DIR, config, stages, archive, directives>>

WithExtraArgs(args) ==
    /\ pc = "builder"
    /\ Len(calls) < MaxCalls
    /\ self' = with_extra_args(self, args)
    /\ calls' = Append(calls, Call("args", <<>>, args, NoPath))
    /\ UNCHANGED <<ctor, status, cmd, manifest_state, reads, ret, pc, msg,
                   frame, OUT_DIR, config, stages, archive, directives>>

WithOutputDir(dir) ==
    /\ pc = "builder"
    /\ Len(calls) < MaxCalls
    /\ self' = with_output_dir(self, dir)
    /\ calls' = Append(calls, Call("dir", <<>>, <<>>, dir))
    /\ UNCHANGED <<ctor, status, cmd, manifest_state, reads, ret, pc, msg,
                   frame, OUT_DIR, config, stages, archive, directives>>

\* compile(&self)
Compile(st, file) ==
    /\ pc = "builder"
    /\ LET r == compile(self, st, file)
       IN  /\ ret' = r.ret
           /\ cmd' = r.cmd
           /\ reads' = r.reads
    /\ status' = st
    /\ manifest_state' = file.state
    /\ pc' = "compiled"
    /\ UNCHANGED <<self, ctor, calls, msg, frame, OUT_DIR, config, stages,
                   archive, directives>>

\* Library::link(&self) on the Library compile() returned
Link(project, cc_ok) ==
    /\ pc = "compiled"
    /\ ret.tag = "OkSome"
    /\ LET r == link(ret.lib, project, cc_ok)
       IN  /\ archive' = r.archive
           /\ directives' = r.directives
           /\ pc' = IF r.panicked THEN "panic" ELSE "linked"
           /\ msg' = IF r.panicked THEN "cc" ELSE msg
    /\ UNCHANGED <<self, ctor, calls, status, cmd, manifest_state, reads,
                   ret, frame, OUT_DIR, config, stages>>

--------------------------------------------------------------------------
(* The build-script entry points *)

\* build(backend, src, dest), with OUT_DIR set to out_dir
Build(backend, src, dest, out_dir) ==
    /\ pc = "idle"
    /\ frame' = [fn |-> "build", backend |-> backend, src |-> src,
                 dest_arg |-> dest, dest |-> dest]
    /\ OUT_DIR' = out_dir
    /\ pc' = "compile"
    /\ UNCHANGED <<self, ctor, calls, status, cmd, manifest_state, reads,
                   ret, msg, config, stages, archive, directives>>

\* build_in_out_dir(backend, src, dest), with OUT_DIR set to out_dir
BuildInOutDir(backend, src, dest, out_dir) ==
    /\ pc = "idle"
    /\ frame' = [fn |-> "build_in_out_dir", backend |-> backend, src |-> src,
                 dest_arg |-> dest,
                 dest |-> build_in_out_dir_dest(out_dir, dest)]
    /\ OUT_DIR' = out_dir
    /\ pc' = "compile"
    /\ UNCHANGED <<self, ctor, calls, status, cmd, manifest_state, reads,
                   ret, msg, config, stages, archive, directives>>

\* Compiler::new(backend, src).with_output_dir(out).compile(), unwrapped
BuildCompile(exists, st, file) ==
    /\ pc = "compile"
    /\ IF ~exists
       THEN /\ pc' = "panic"
            /\ msg' = "canonicalize"
            /\ stages' = Append(stages, Stage("compile", FALSE))
            /\ UNCHANGED <<self, ctor, calls, status, cmd, manifest_state,
                           reads, ret>>
       ELSE LET c == with_output_dir(new(frame.backend, frame.src), OUT_DIR)
                r == compile(c, st, file)
            IN  /\ self' = c
                /\ ctor' = [backend |-> frame.backend, src |-> frame.src]
                /\ calls' = <<Call("dir", <<>>, <<>>, OUT_DIR)>>
                /\ ret' = r.ret
                /\ cmd' = r.cmd
                /\ reads' = r.reads
                /\ status' = st
                /\ manifest_state' = file.state
                /\ stages' = Append(stages,
                                Stage("compile", r.ret.tag \in {"OkNone", "OkSome"}))
                /\ pc' = after_compile(r.ret)
                /\ msg' = compile_panic(r.ret)
    /\ UNCHANGED <<frame, OUT_DIR, config, archive, directives>>

\* Config::new(OUT_DIR.join(dest)).expect(..)
BuildConfig(io_ok) ==
    /\ pc = "config"
    /\ LET out == build_dest(OUT_DIR, frame.dest)
           r == config_new(out, io_ok)
       IN  /\ config' = out
           /\ stages' = Append(stages, Stage("config", r.ok))
           /\ pc' = expect(r.ok, "detect")
           /\ msg' = IF r.ok THEN msg ELSE "Unable to configure codegen"
    /\ UNCHANGED <<self, ctor, calls, status, cmd, manifest_state, reads,
                   ret, frame, OUT_DIR, archive, directives>>

\* config.detect().expect(..)
BuildDetect(ok) ==
    /\ pc = "detect"
    /\ stages' = Append(stages, Stage("detect", ok))
    /\ pc' = expect(ok, "generate")
    /\ msg' = IF ok THEN msg ELSE "Invalid output language"
    /\ UNCHANGED <<self, ctor, calls, status, cmd, manifest_state, reads,
                   ret, frame, OUT_DIR, config, archive, directives>>

\* gen.generate(&lib, &mut config).expect(..)
BuildGenerate(ok) ==
    /\ pc = "generate"
    /\ stages' = Append(stages, Stage("generate", ok))
    /\ pc' = expect(ok, "link")
    /\ msg' = IF ok THEN msg ELSE "Code generation failed"
    /\ UNCHANGED <<self, ctor, calls, status, cmd, manifest_state, reads,
                   ret, frame, OUT_DIR, config, archive, directives>>

\* lib.link()
BuildLink(project, cc_ok) ==
    /\ pc = "link"
    /\ LET r == link(ret.lib, project, cc_ok)
       IN  /\ archive' = r.archive
           /\ directives' = r.directives
           /\ stages' = Append(stages, Stage("link", ~r.panicked))
           /\ pc' = IF r.panicked THEN "panic" ELSE "done"
           /\ msg' = IF r.panicked THEN "cc" ELSE msg
    /\ UNCHANGED <<self, ctor, calls, status, cmd, manifest_state, reads,
                   ret, frame, OUT_DIR, config>>

Next ==
    \/ \E b \in Backend, s \in Srcs, e \in BOOLEAN : New(b, s, e)
    \/ \E n \in Names : WithExecutableName(n)
    \/ \E a \in ArgLists : WithExtraArgs(a)
    \/ \E d \in Dirs : WithOutputDir(d)
    \/ \E st \in Statuses, f \in Files : Compile(st, f)
    \/ \E p \in Projects, ok \in BOOLEAN : Link(p, ok)
    \/ \E b \in Backend, s \in Srcs, d \in Dests, o \in OutDirs : Build(b, s, d, o)
    \/ \E b \in Backend, s \in Srcs, d \in Dests, o \in OutDirs :
            BuildInOutDir(b, s, d, o)
    \/ \E e \in BOOLEAN, st \in Statuses, f \in Files : BuildCompile(e, st, f)
    \/ \E ok \in BOOLEAN : BuildConfig(ok)
    \/ \E ok \in BOOLEAN : BuildDetect(ok)
    \/ \E ok \in BOOLEAN : BuildGenerate(ok)
    \/ \E p \in Projects, ok \in BOOLEAN : BuildLink(p, ok)

Spec == Init /\ [][Next]_vars

--------------------------------------------------------------------------
(* Properties *)

IsPython(b) == b \in {"Python", "PyOpenCL"}

\* `p` with `.ext` written after its last component's name.
Suffixed(p, ext) ==
    LET n == Len(p.comps)
    IN  Path(p.abs, SubSeq(p.comps, 1, n - 1) \o <<p.comps[n] \o <<ext>>>>)

\* <out_stem>: the output directory joined with the source file's stem.
OutStem(c) ==
    Path(c.output_dir.abs,
         c.output_dir.comps \o <<stem_of(c.src.comps[Len(c.src.comps)])>>)

\* C1: whatever the backend and the configuration, a subprocess that exits
\* with a failure makes compile() return Err(CompilationFailed): neither a
\* Library nor Ok(None), and no manifest is read.
C1_NonSuccessIsCompilationFailed ==
    status = "nonzero" =>
        /\ ret = Err("CompilationFailed")
        /\ ret.tag \notin {"OkNone", "OkSome"}
        /\ reads = <<>>

C1_Witness ==
    /\ status = "nonzero"
    /\ self.backend = "PyOpenCL"
    /\ self.extra_args # <<>>
    /\ manifest_state = "valid"

\* C2: after a successful subprocess, compile() returns Ok(None) exactly
\* when the backend is Python or PyOpenCL; then no manifest was read and
\* the result is no error; for C, CUDA, OpenCL and Multicore the result is
\* never Ok(None).
C2_NoLibraryIffPython ==
    status = "zero" =>
        /\ (ret.tag = "OkNone") <=> IsPython(self.backend)
        /\ IsPython(self.backend) => reads = <<>> /\ ret.err = ""
        /\ self.backend \in {"C", "CUDA", "OpenCL", "Multicore"} =>
                ret.tag \in {"OkSome", "Err"}

C2_Witness ==
    /\ status = "zero"
    /\ self.backend = "PyOpenCL"
    /\ ret = OkNone
    /\ manifest_state = "valid"

\* C3: with a backend other than Python and PyOpenCL and a successful
\* subprocess, compile() reads the manifest from <out_stem>.json, and the
\* Library it returns has c_file = <out_stem>.c, h_file = <out_stem>.h and
\* src = the configured source, <out_stem> being the output directory
\* joined with the source's stem, the very text passed after -o.
C3_ArtefactsAtOutStem ==
    (status = "zero" /\ ~IsPython(self.backend)) =>
        /\ reads = <<Suffixed(OutStem(self), "json")>>
        /\ cmd.args[Len(cmd.args) - 2] = display(OutStem(self))
        /\ ret.tag = "OkSome" =>
              /\ ret.lib.c_file = Suffixed(OutStem(self), "c")
              /\ ret.lib.h_file = Suffixed(OutStem(self), "h")
              /\ ret.lib.src = self.src

ExpectedLibs(b) ==
    CASE b = "CUDA" -> {Str("cuda"), Str("cudart"), Str("nvrtc"), Str("m")}
      [] b = "OpenCL" -> {Str("OpenCL"), Str("m")}
      [] OTHER -> {}

\* C5: link() prints link directives for the project archive and the
\* libraries the manifest's backend needs, and no other: the first names
\* the archive cc compiled, the rest are exactly the backend's libraries.
C5_LinkDirectives ==
    /\ pc \in {"linked", "done"} => directives # <<>>
    /\ directives # <<>> =>
        LET rest == {directives[i].value : i \in 2..Len(directives)}
            want == ExpectedLibs(ret.lib.manifest.backend)
        IN  /\ archive # <<>>
            /\ directives[1] = LinkLib(archive)
            /\ \A i \in 1..Len(directives) : directives[i].key = "rustc-link-lib"
            /\ rest = want
            /\ Len(directives) = 1 + Cardinality(want)

C5_Witness ==
    /\ pc = "linked"
    /\ ret.lib.manifest.backend = "OpenCL"
    /\ Len(directives) = 3

\* C6: build with backend Python or PyOpenCL and a successful subprocess:
\* compile() yields Ok(None), the generator does not run, nothing is
\* printed for the linker, and the build step ends without an error.
C6_PythonBuildSucceeds ==
    (frame.fn # "none" /\ IsPython(frame.backend) /\ status = "zero") =>
        /\ ret = OkNone
        /\ \A i \in 1..Len(stages) : stages[i].name # "generate"
        /\ directives = <<>>
        /\ pc # "panic"

\* C7: a manifest that is missing or malformed after a successful
\* subprocess of a backend other than Python and PyOpenCL makes compile()
\* return that I/O or parse error and no Library; an executable that cannot
\* be launched makes it return an I/O error, not CompilationFailed, with no
\* manifest read.
C7_ErrorsPropagate ==
    /\ (/\ status = "zero"
        /\ ~IsPython(self.backend)
        /\ manifest_state \in {"missing", "malformed"}) =>
            /\ ret.tag = "Err"
            /\ ret.err = (IF manifest_state = "missing" THEN "Io" ELSE "ManifestParse")
            /\ ret.lib = NoLibrary
    /\ status = "launch_failed" =>
            /\ ret = Err("Io")
            /\ reads = <<>>

C7_Witness ==
    /\ status = "zero"
    /\ manifest_state = "malformed"
    /\ self.backend = "CUDA"
    /\ ret.tag = "Err"

\* C8: build_in_out_dir joins its relative `dest` with the output directory
\* once: Config::new receives OUT_DIR/dest.
C8_JoinedOnce ==
    (frame.fn = "build_in_out_dir" /\ ~frame.dest_arg.abs /\ config # NoPath) =>
        config = Path(OUT_DIR.abs, OUT_DIR.comps \o frame.dest_arg.comps)

\* With an absolute OUT_DIR the second join replaces its base, and the
\* path Config::new receives is OUT_DIR/dest all the same.
JoinedOnceWhenAbsolute ==
    (/\ frame.fn = "build_in_out_dir"
     /\ ~frame.dest_arg.abs
     /\ OUT_DIR.abs
     /\ config # NoPath) =>
        config = Path(OUT_DIR.abs, OUT_DIR.comps \o frame.dest_arg.comps)

StageOrder == <<"compile", "config", "detect", "generate", "link">>

\* C9: build runs compile, Config::new, detect, generate, link in this
\* order, each at most once; a stage that fails ends the build and none
\* runs after it; directives are printed only once all five have succeeded.
C9_StagesInOrder ==
    /\ Len(stages) <= Len(StageOrder)
    /\ \A i \in 1..Len(stages) : stages[i].name = StageOrder[i]
    /\ \A i \in 1..Len(stages) : ~stages[i].ok => (i = Len(stages) /\ pc = "panic")
    /\ Len(stages) > 1 => ret.tag = "OkSome"
    /\ (frame.fn # "none" /\ directives # <<>>) =>
            /\ Len(stages) = Len(StageOrder)
            /\ \A i \in 1..Len(stages) : stages[i].ok
            /\ pc = "done"
    /\ (frame.fn # "none" /\ pc = "panic") => directives = <<>>

C9_Witness ==
    /\ pc = "done"
    /\ Len(stages) = 5
    /\ directives # <<>>

Last(S) == CHOOSE i \in S : \A j \in S : j <= i

\* The calls that set field `op`.
Setting(op) == {i \in 1..Len(calls) : calls[i].op = op}

\* C10: every field of the Compiler holds what the last call that set it
\* gave, or its default when none did: exe "futhark", no extra arguments,
\* the directory of the canonicalised source; backend and src are those
\* given to new; this is so after every builder call and after compile().
C10_LastCallWins ==
    self # NoCompiler =>
        /\ self.backend = ctor.backend
        /\ self.src = ctor.src
        /\ self.exe = (IF Setting("exe") = {} THEN Str("futhark")
                       ELSE calls[Last(Setting("exe"))].exe)
        /\ self.extra_args = (IF Setting("args") = {} THEN <<>>
                              ELSE calls[Last(Setting("args"))].args)
        /\ self.output_dir =
              (IF Setting("dir") = {}
               THEN LET full == (IF ctor.src.abs THEN <<>> ELSE Cwd.comps)
                                    \o ctor.src.comps
                    IN  Path(TRUE, SubSeq(full, 1, Len(full) - 1))
               ELSE calls[Last(Setting("dir"))].dir)

C10_Witness ==
    /\ pc = "compiled"
    /\ Len(calls) = 2
    /\ calls[1].op = "args" /\ calls[1].args # <<>>
    /\ calls[2].op = "args" /\ calls[2].args # <<>>
    /\ calls[1].args # calls[2].args

==========================================================================
